---- MODULE Spec2Model ----
(***************************************************************************)
(* Model of the BiMap of src/bimap/bimap.go (the variant with a per-entry  *)
(* payload, lines 115-261): a forward index keyToEntry, a reverse index    *)
(* valueToKey and the sorted key list keys.  Every public method is one    *)
(* action; the method body runs under the map's lock, so a completed call  *)
(* is one atomic step here.  Lines 1-114 of the file hold the earlier      *)
(* variant without payload; its Set, Delete and removeKeyFromList are the  *)
(* same statements with the entry replaced by its value.                   *)
(*                                                                         *)
(* last, pre and ret record the call that completed last, the map as that  *)
(* call found it and what the call returned, so that the effect of one     *)
(* call is a predicate of one state.                                       *)
(*                                                                         *)
(* Go strings are modelled by their rank in byte-wise lexicographic order: *)
(* string 0 is the empty string "" (the zero value of the type), and       *)
(* a < b on ranks is a < b on the strings.  Go's int is modelled with      *)
(* IntBits bits, two's complement, so that start+limit wraps as it does in *)
(* the program.                                                            *)
(***************************************************************************)
EXTENDS Integers, Sequences, FiniteSets, TLC

\* ---------------------------------------------------------------- bounds
\* Number of distinct strings used as keys and as values.
NumStrings == 3
\* Width of the machine integer (Go int) in the model.
IntBits == 8

\* Number of goroutines that call the map concurrently.
NumThreads == 2
\* Number of calls made in one concurrent run.
MaxCalls == 4

Strings == 0..(NumStrings - 1)
\* Zero value of string ("").
ZeroString == 0
\* Payloads (type any): nil and one non-nil payload.
Nil == "nil"
Extras == {Nil, "x"}

MaxInt == 2^(IntBits - 1) - 1
MinInt == -(2^(IntBits - 1))
\* Two's complement wrap-around of an int result.
Wrap(x) == ((x - MinInt) % (2^IntBits)) + MinInt

\* Arguments the range queries are called with.
Starts == {-1} \cup (0..NumStrings) \cup {MaxInt}
Limits == {-1, 0, 1, 2, MaxInt - 1, MaxInt}

VARIABLES
    keyToEntry,   \* bm.keyToEntry : key -> [Value, Extra]
    valueToKey,   \* bm.valueToKey : value -> key
    keys,         \* bm.keys       : sorted keys
    last,         \* the call that completed last, with its arguments
    pre,          \* the map as it was when that call started
    ret,          \* what that call returned
    mu,           \* bm.mu : the writer holding it and the readers holding it
    pc,           \* per goroutine: where it is in its current call
    cur,          \* per goroutine: the call it is in
    old,          \* per goroutine: local oldKey (SetWithExtra), entry.Value (Delete)
    res,          \* per goroutine: what its read returns
    exp,          \* per goroutine: what that read returns on the atomic map
    acq,          \* per goroutine: times it acquired bm.mu in the current call
    abs,          \* the atomic map: each call applied whole, in lock order
    ncalls,       \* calls started so far
    page          \* the first GetWithRange answered since the last write

seqvars == <<last, pre, ret>>

concvars == <<mu, pc, cur, old, res, exp, acq, abs, ncalls, page>>

vars == <<keyToEntry, valueToKey, keys, last, pre, ret,
          mu, pc, cur, old, res, exp, acq, abs, ncalls, page>>

Threads == 1..NumThreads
NoThread == 0

\* ------------------------------------------------------------ the struct
entry(value, extra) == [Value |-> value, Extra |-> extra]

ItemWithExtra(key, value, extra) == [Key |-> key, Value |-> value, Extra |-> extra]

\* Zero value of entry, which a Go map read of a missing key yields.
ZeroEntry == entry(ZeroString, Nil)

EmptyMap == [x \in {} |-> 0]

NewBiMap == [keyToEntry |-> EmptyMap, valueToKey |-> EmptyMap, keys |-> <<>>]

\* The map as one value.
BM == [keyToEntry |-> keyToEntry, valueToKey |-> valueToKey, keys |-> keys]

\* ---------------------------------------------------------- Go builtins
\* delete(m, k): removes k, no-op when k is missing.
MapDelete(m, k) == [x \in (DOMAIN m) \ {k} |-> m[x]]

\* m[k] = v
MapPut(m, k, v) == [x \in (DOMAIN m) \cup {k} |-> IF x = k THEN v ELSE m[x]]

\* v := m[k]: the zero value when k is missing.
MapGet(m, k, zero) == IF k \in DOMAIN m THEN m[k] ELSE zero

Min(a, b) == IF a < b THEN a ELSE b

\* Inserts x into the ascending sequence s, after the elements not above it.
RECURSIVE InsertSorted(_, _)
InsertSorted(s, x) ==
    IF s = <<>> THEN <<x>>
    ELSE IF x < Head(s) THEN <<x>> \o s
    ELSE <<Head(s)>> \o InsertSorted(Tail(s), x)

\* Variant of SortStrings: the list is left in insertion order.
SortStrings_unsorted(s) == s

\* sort.Strings(s): s in ascending order, with its repetitions.
RECURSIVE SortStrings(_)
SortStrings(s) ==
    IF s = <<>> THEN <<>>
    ELSE InsertSorted(SortStrings(Tail(s)), Head(s))

\* --------------------------------------------------------------- helpers
\* Variant of removeKeyFromList: the list is cut off at the key.
RECURSIVE removeKeyFromList_truncates(_, _)
removeKeyFromList_truncates(ks, key) ==
    IF ks = <<>> THEN <<>>
    ELSE IF Head(ks) = key THEN <<>>
    ELSE <<Head(ks)>> \o removeKeyFromList_truncates(Tail(ks), key)

\* removeKeyFromList: drops the first occurrence of key, if any.
RECURSIVE removeKeyFromList(_, _)
removeKeyFromList(ks, key) ==
    IF ks = <<>> THEN <<>>
    ELSE IF Head(ks) = key THEN Tail(ks)
    ELSE <<Head(ks)>> \o removeKeyFromList(Tail(ks), key)

\* ------------------------------------------------------------ operations
\* Variant of releaseOrAddKey: the old value of an existing key stays in the
\* reverse index.
releaseOrAddKey_keepsOldValue(bm, key) ==
    IF key \in DOMAIN bm.keyToEntry
    THEN bm
    ELSE [bm EXCEPT !.keys = SortStrings(Append(@, key))]

\* Variant of releaseOrAddKey: the reverse entry deleted for an existing key
\* is the one named like the key, not the one of its old value.
releaseOrAddKey_deletesByKey(bm, key) ==
    IF key \in DOMAIN bm.keyToEntry
    THEN [bm EXCEPT !.valueToKey = MapDelete(@, key)]
    ELSE [bm EXCEPT !.keys = SortStrings(Append(@, key))]

\* Variant of releaseOrAddKey: the key is appended to the key list whether it
\* exists or not.
releaseOrAddKey_alwaysAppends(bm, key) ==
    IF key \in DOMAIN bm.keyToEntry
    THEN [bm EXCEPT !.valueToKey = MapDelete(@, bm.keyToEntry[key].Value),
                    !.keys = SortStrings(Append(@, key))]
    ELSE [bm EXCEPT !.keys = SortStrings(Append(@, key))]

\* SetWithExtra, first half: an existing key gives up its reverse entry, a
\* new key enters the key list, which is sorted again.
releaseOrAddKey(bm, key) ==
    IF key \in DOMAIN bm.keyToEntry
    THEN [bm EXCEPT !.valueToKey = MapDelete(@, bm.keyToEntry[key].Value)]
    ELSE [bm EXCEPT !.keys = SortStrings(Append(@, key))]

\* Variant of evictOldKey: the old key leaves the key list but keeps its
\* forward entry.
evictOldKey_keepsEntry(bm, value) ==
    IF value \in DOMAIN bm.valueToKey
    THEN [bm EXCEPT !.keys = removeKeyFromList(@, bm.valueToKey[value])]
    ELSE bm

\* Variant of evictOldKey: the holder of the value keeps its forward entry and
\* its place in the key list.
evictOldKey_never(bm, value) == bm

\* SetWithExtra, second half: the key that holds value, if any, is purged
\* from the forward index and from the key list.
evictOldKey(bm, value) ==
    IF value \in DOMAIN bm.valueToKey
    THEN LET oldKey == bm.valueToKey[value]
         IN  [bm EXCEPT !.keyToEntry = MapDelete(@, oldKey),
                        !.keys = removeKeyFromList(@, oldKey)]
    ELSE bm

\* Variant of storeEntry: the reverse index is not written.
storeEntry_forwardOnly(bm, key, value, extra) ==
    [bm EXCEPT !.keyToEntry = MapPut(@, key, entry(value, extra))]

\* SetWithExtra, the two stores that end it.
storeEntry(bm, key, value, extra) ==
    [bm EXCEPT !.keyToEntry = MapPut(@, key, entry(value, extra)),
               !.valueToKey = MapPut(@, value, key)]

SetWithExtra(bm, key, value, extra) ==
    storeEntry(evictOldKey(releaseOrAddKey(bm, key), value), key, value, extra)

\* Variant of Set: an existing key keeps the payload it has.
Set_keepsExtra(bm, key, value) ==
    SetWithExtra(bm, key, value, MapGet(bm.keyToEntry, key, ZeroEntry).Extra)

Set(bm, key, value) == SetWithExtra(bm, key, value, Nil)

\* Get: (entry.Value, exists); the zero entry when the key is missing.
Get(bm, key) ==
    <<MapGet(bm.keyToEntry, key, ZeroEntry).Value, key \in DOMAIN bm.keyToEntry>>

\* GetExtra: (value, extra, true) or ("", nil, false).
GetExtra(bm, key) ==
    IF key \notin DOMAIN bm.keyToEntry
    THEN <<ZeroString, Nil, FALSE>>
    ELSE <<bm.keyToEntry[key].Value, bm.keyToEntry[key].Extra, TRUE>>

\* GetByValue: (key, exists); the zero string when the value is missing.
GetByValue(bm, value) ==
    <<MapGet(bm.valueToKey, value, ZeroString), value \in DOMAIN bm.valueToKey>>

\* Len: len(bm.keyToEntry)
BiMapLen(bm) == Cardinality(DOMAIN bm.keyToEntry)

\* Largest capacity make([]ItemWithExtra, 0, n) accepts; beyond it, and below
\* zero, make panics.  The allocator's limit is far below the largest int.
MaxSliceCap == MaxInt \div 4

\* bm.keys[i], i counted from 0 as in the program.
KeyAt(bm, i) == bm.keys[i + 1]

\* GetWithRange: the items, or a run-time panic of the call.
GetWithRange(bm, start, limit) ==
    IF start >= Len(bm.keys) \/ limit <= 0
    THEN [status |-> "ok", items |-> <<>>]
    ELSE LET end == Min(Wrap(start + limit), Len(bm.keys))
             cap == Wrap(end - start)
         IN  IF cap < 0 \/ cap > MaxSliceCap
             THEN [status |-> "panic", items |-> <<>>]
             ELSE IF \E i \in start..(end - 1) : i < 0 \/ i >= Len(bm.keys)
             THEN [status |-> "panic", items |-> <<>>]
             ELSE [status |-> "ok",
                   items |-> [j \in 1..(end - start) |->
                        LET key == KeyAt(bm, start + j - 1)
                            value == MapGet(bm.keyToEntry, key, ZeroEntry)
                        IN  ItemWithExtra(key, value.Value, value.Extra)]]

\* Variant of Delete: the value of the deleted key stays in the reverse index.
Delete_keepsValue(bm, key) ==
    IF key \in DOMAIN bm.keyToEntry
    THEN [keyToEntry |-> MapDelete(bm.keyToEntry, key),
          valueToKey |-> bm.valueToKey,
          keys |-> removeKeyFromList(bm.keys, key)]
    ELSE bm

\* Variant of Delete: no test that the key exists, so the value of the zero
\* entry is deleted from the reverse index when the key is missing.
Delete_unguarded(bm, key) ==
    [keyToEntry |-> MapDelete(bm.keyToEntry, key),
     valueToKey |-> MapDelete(bm.valueToKey,
                              MapGet(bm.keyToEntry, key, ZeroEntry).Value),
     keys |-> removeKeyFromList(bm.keys, key)]

\* Delete: removes a live key from the three indexes.
Delete(bm, key) ==
    IF key \in DOMAIN bm.keyToEntry
    THEN [keyToEntry |-> MapDelete(bm.keyToEntry, key),
          valueToKey |-> MapDelete(bm.valueToKey, bm.keyToEntry[key].Value),
          keys |-> removeKeyFromList(bm.keys, key)]
    ELSE bm

\* --------------------------------------------------------------- actions
Call(op, key, value, extra, start, limit) ==
    [op |-> op, key |-> key, value |-> value, extra |-> extra,
     start |-> start, limit |-> limit]

NoCall == Call("NewBiMap", ZeroString, ZeroString, Nil, 0, 0)

Return(status, found, key, value, extra, n, items) ==
    [status |-> status, found |-> found, key |-> key, value |-> value,
     extra |-> extra, n |-> n, items |-> items]

\* A call that returns nothing.
Void == Return("ok", FALSE, ZeroString, ZeroString, Nil, 0, <<>>)

\* No GetWithRange answered since the last write.
NoPage == [call |-> NoCall, items |-> <<>>]

Init ==
    /\ keyToEntry = NewBiMap.keyToEntry
    /\ valueToKey = NewBiMap.valueToKey
    /\ keys = NewBiMap.keys
    /\ last = NoCall
    /\ pre = NewBiMap
    /\ ret = Void
    /\ mu = [writer |-> NoThread, readers |-> {}]
    /\ pc = [t \in Threads |-> "idle"]
    /\ cur = [t \in Threads |-> NoCall]
    /\ old = [t \in Threads |-> ZeroString]
    /\ res = [t \in Threads |-> Void]
    /\ exp = [t \in Threads |-> Void]
    /\ acq = [t \in Threads |-> 0]
    /\ abs = NewBiMap
    /\ ncalls = 0
    /\ page = NoPage

\* A write: the map becomes bm.
Becomes(bm) ==
    /\ keyToEntry' = bm.keyToEntry
    /\ valueToKey' = bm.valueToKey
    /\ keys' = bm.keys
    /\ pre' = BM
    /\ ret' = Void
    /\ UNCHANGED concvars

\* A read: the map stays, r is returned.
Returns(r) ==
    /\ UNCHANGED <<keyToEntry, valueToKey, keys>>
    /\ pre' = BM
    /\ ret' = r
    /\ UNCHANGED concvars

DoSet ==
    \E key \in Strings, value \in Strings :
        /\ last' = Call("Set", key, value, Nil, 0, 0)
        /\ Becomes(Set(BM, key, value))

DoSetWithExtra ==
    \E key \in Strings, value \in Strings, extra \in Extras :
        /\ last' = Call("SetWithExtra", key, value, extra, 0, 0)
        /\ Becomes(SetWithExtra(BM, key, value, extra))

DoDelete ==
    \E key \in Strings :
        /\ last' = Call("Delete", key, ZeroString, Nil, 0, 0)
        /\ Becomes(Delete(BM, key))

DoGet ==
    \E key \in Strings :
        /\ last' = Call("Get", key, ZeroString, Nil, 0, 0)
        /\ LET r == Get(BM, key)
           IN  Returns(Return("ok", r[2], ZeroString, r[1], Nil, 0, <<>>))

DoGetExtra ==
    \E key \in Strings :
        /\ last' = Call("GetExtra", key, ZeroString, Nil, 0, 0)
        /\ LET r == GetExtra(BM, key)
           IN  Returns(Return("ok", r[3], ZeroString, r[1], r[2], 0, <<>>))

DoGetByValue ==
    \E value \in Strings :
        /\ last' = Call("GetByValue", ZeroString, value, Nil, 0, 0)
        /\ LET r == GetByValue(BM, value)
           IN  Returns(Return("ok", r[2], r[1], ZeroString, Nil, 0, <<>>))

DoGetWithRange ==
    \E start \in Starts, limit \in Limits :
        /\ last' = Call("GetWithRange", ZeroString, ZeroString, Nil, start, limit)
        /\ LET r == GetWithRange(BM, start, limit)
           IN  Returns(Return(r.status, FALSE, ZeroString, ZeroString, Nil, 0, r.items))

DoLen ==
    /\ last' = Call("Len", ZeroString, ZeroString, Nil, 0, 0)
    /\ Returns(Return("ok", FALSE, ZeroString, ZeroString, Nil, BiMapLen(BM), <<>>))

Next ==
    \/ DoSet
    \/ DoSetWithExtra
    \/ DoDelete
    \/ DoGet
    \/ DoGetExtra
    \/ DoGetByValue
    \/ DoGetWithRange
    \/ DoLen

Spec == Init /\ [][Next]_vars

\* ----------------------------------------------------- concurrent callers
\* Goroutines call the public methods of one map.  A write is run statement
\* by statement, one index update per step, between Lock and the deferred
\* Unlock; a read is RLock, the read, the deferred RUnlock.

\* The calls the goroutines choose from.
ConcCalls ==
    {Call("Set", 0, 0, Nil, 0, 0),
     Call("Set", 1, 0, Nil, 0, 0),
     Call("SetWithExtra", 0, 1, "x", 0, 0),
     Call("Delete", 0, ZeroString, Nil, 0, 0),
     Call("Get", 0, ZeroString, Nil, 0, 0),
     Call("GetExtra", 1, ZeroString, Nil, 0, 0),
     Call("GetByValue", ZeroString, 0, Nil, 0, 0),
     Call("Len", ZeroString, ZeroString, Nil, 0, 0),
     Call("GetWithRange", ZeroString, ZeroString, Nil, 0, 2)}

WriteOps == {"Set", "SetWithExtra", "Delete"}

\* sync.RWMutex: Lock waits until no writer and no reader holds the mutex,
\* RLock until no writer holds it.
\* Variant of CanLock: Lock waits for the writer only, as RLock does.
CanLock_ignoresReaders(m) == m.writer = NoThread

CanLock(m) == m.writer = NoThread /\ m.readers = {}

\* Variant of CanRLock: RLock never waits.
CanRLock_always(m) == TRUE

CanRLock(m) == m.writer = NoThread

\* Variant of Lock: the mutex is not taken.
Lock_notTaken(m, t) == m

Lock(m, t) == [m EXCEPT !.writer = t]

Unlock(m, t) == [m EXCEPT !.writer = NoThread]

RLock(m, t) == [m EXCEPT !.readers = @ \cup {t}]

RUnlock(m, t) == [m EXCEPT !.readers = @ \ {t}]

\* What the write c makes of the map bm when it runs alone.
WriteResult(bm, c) ==
    IF c.op = "Set" THEN Set(bm, c.key, c.value)
    ELSE IF c.op = "SetWithExtra" THEN SetWithExtra(bm, c.key, c.value, c.extra)
    ELSE Delete(bm, c.key)

\* What the read c returns on the map bm.
ReadResult(bm, c) ==
    IF c.op = "Get"
    THEN Return("ok", Get(bm, c.key)[2], ZeroString, Get(bm, c.key)[1], Nil, 0, <<>>)
    ELSE IF c.op = "GetExtra"
    THEN Return("ok", GetExtra(bm, c.key)[3], ZeroString, GetExtra(bm, c.key)[1],
                GetExtra(bm, c.key)[2], 0, <<>>)
    ELSE IF c.op = "GetByValue"
    THEN Return("ok", GetByValue(bm, c.value)[2], GetByValue(bm, c.value)[1],
                ZeroString, Nil, 0, <<>>)
    ELSE IF c.op = "Len"
    THEN Return("ok", FALSE, ZeroString, ZeroString, Nil, BiMapLen(bm), <<>>)
    ELSE Return(GetWithRange(bm, c.start, c.limit).status, FALSE, ZeroString,
                ZeroString, Nil, 0, GetWithRange(bm, c.start, c.limit).items)

\* The goroutine moves on; its call and its locals stay.
Goto(t, to) ==
    /\ pc' = [pc EXCEPT ![t] = to]
    /\ UNCHANGED <<cur, ncalls>>
    /\ UNCHANGED seqvars

MapUnchanged == UNCHANGED <<keyToEntry, valueToKey, keys>>

\* A goroutine calls a method.  Set only calls SetWithExtra (line 152).
Invoke(t) ==
    /\ pc[t] = "idle"
    /\ ncalls < MaxCalls
    /\ \E c \in ConcCalls :
          /\ cur' = [cur EXCEPT ![t] = c]
          /\ pc' = [pc EXCEPT ![t] = IF c.op \in WriteOps THEN "lock" ELSE "rlock"]
    /\ ncalls' = ncalls + 1
    /\ MapUnchanged
    /\ UNCHANGED <<mu, old, res, exp, acq, abs, page>>
    /\ UNCHANGED seqvars

\* bm.mu.Lock() (lines 156, 235).  The call takes effect on the atomic map.
AcquireLock(t) ==
    /\ pc[t] = "lock"
    /\ CanLock(mu)
    /\ mu' = Lock(mu, t)
    /\ acq' = [acq EXCEPT ![t] = @ + 1]
    /\ abs' = WriteResult(abs, cur[t])
    /\ page' = NoPage
    /\ Goto(t, IF cur[t].op = "Delete" THEN "d1" ELSE "s1")
    /\ MapUnchanged
    /\ UNCHANGED <<old, res, exp>>

\* Lines 159-164.
SetRelease(t) ==
    /\ pc[t] = "s1"
    /\ LET bm == releaseOrAddKey(BM, cur[t].key)
       IN  /\ valueToKey' = bm.valueToKey
           /\ keys' = bm.keys
    /\ Goto(t, "s2")
    /\ UNCHANGED <<keyToEntry, mu, old, res, exp, acq, abs, page>>

\* Lines 166-167.
SetEvictEntry(t) ==
    /\ pc[t] = "s2"
    /\ IF cur[t].value \in DOMAIN valueToKey
       THEN /\ old' = [old EXCEPT ![t] = valueToKey[cur[t].value]]
            /\ keyToEntry' = MapDelete(keyToEntry, valueToKey[cur[t].value])
            /\ Goto(t, "s3")
       ELSE /\ UNCHANGED <<old, keyToEntry>>
            /\ Goto(t, "s4")
    /\ UNCHANGED <<valueToKey, keys, mu, res, exp, acq, abs, page>>

\* Line 168.
SetEvictKey(t) ==
    /\ pc[t] = "s3"
    /\ keys' = removeKeyFromList(keys, old[t])
    /\ Goto(t, "s4")
    /\ UNCHANGED <<keyToEntry, valueToKey, mu, old, res, exp, acq, abs, page>>

\* Lines 171-174.
SetStoreEntry(t) ==
    /\ pc[t] = "s4"
    /\ keyToEntry' = MapPut(keyToEntry, cur[t].key, entry(cur[t].value, cur[t].extra))
    /\ Goto(t, "s5")
    /\ UNCHANGED <<valueToKey, keys, mu, old, res, exp, acq, abs, page>>

\* Line 175.
SetStoreKey(t) ==
    /\ pc[t] = "s5"
    /\ valueToKey' = MapPut(valueToKey, cur[t].value, cur[t].key)
    /\ Goto(t, "unlock")
    /\ UNCHANGED <<keyToEntry, keys, mu, old, res, exp, acq, abs, page>>

\* Variant of DeleteEntry: a missing key returns at once, without the unlock.
DeleteEntry_returnsLocked(t) ==
    /\ pc[t] = "d1"
    /\ IF cur[t].key \in DOMAIN keyToEntry
       THEN /\ old' = [old EXCEPT ![t] = keyToEntry[cur[t].key].Value]
            /\ keyToEntry' = MapDelete(keyToEntry, cur[t].key)
            /\ Goto(t, "d2")
       ELSE /\ UNCHANGED <<old, keyToEntry>>
            /\ Goto(t, "idle")
    /\ UNCHANGED <<valueToKey, keys, mu, res, exp, acq, abs, page>>

\* Lines 238-239.
DeleteEntry(t) ==
    /\ pc[t] = "d1"
    /\ IF cur[t].key \in DOMAIN keyToEntry
       THEN /\ old' = [old EXCEPT ![t] = keyToEntry[cur[t].key].Value]
            /\ keyToEntry' = MapDelete(keyToEntry, cur[t].key)
            /\ Goto(t, "d2")
       ELSE /\ UNCHANGED <<old, keyToEntry>>
            /\ Goto(t, "unlock")
    /\ UNCHANGED <<valueToKey, keys, mu, res, exp, acq, abs, page>>

\* Line 240.
DeleteValue(t) ==
    /\ pc[t] = "d2"
    /\ valueToKey' = MapDelete(valueToKey, old[t])
    /\ Goto(t, "d3")
    /\ UNCHANGED <<keyToEntry, keys, mu, old, res, exp, acq, abs, page>>

\* Line 241.
DeleteKey(t) ==
    /\ pc[t] = "d3"
    /\ keys' = removeKeyFromList(keys, cur[t].key)
    /\ Goto(t, "unlock")
    /\ UNCHANGED <<keyToEntry, valueToKey, mu, old, res, exp, acq, abs, page>>

\* The goroutine is back in its caller.
Done(t) ==
    /\ pc' = [pc EXCEPT ![t] = "idle"]
    /\ cur' = [cur EXCEPT ![t] = NoCall]
    /\ old' = [old EXCEPT ![t] = ZeroString]
    /\ res' = [res EXCEPT ![t] = Void]
    /\ exp' = [exp EXCEPT ![t] = Void]
    /\ acq' = [acq EXCEPT ![t] = 0]
    /\ UNCHANGED ncalls
    /\ UNCHANGED seqvars

\* defer bm.mu.Unlock() (lines 157, 236), and the return.
ReleaseLock(t) ==
    /\ pc[t] = "unlock"
    /\ mu' = Unlock(mu, t)
    /\ Done(t)
    /\ MapUnchanged
    /\ UNCHANGED <<abs, page>>

\* bm.mu.RLock() (lines 180, 188, 200, 209, 247).
AcquireRLock(t) ==
    /\ pc[t] = "rlock"
    /\ CanRLock(mu)
    /\ mu' = RLock(mu, t)
    /\ acq' = [acq EXCEPT ![t] = @ + 1]
    /\ Goto(t, "read")
    /\ MapUnchanged
    /\ UNCHANGED <<old, res, exp, abs, page>>

\* Variant of ReadBody: GetWithRange drops the first key of the list it read.
ReadBody_consumes(t) ==
    /\ pc[t] = "read"
    /\ res' = [res EXCEPT ![t] = ReadResult(BM, cur[t])]
    /\ exp' = [exp EXCEPT ![t] = ReadResult(abs, cur[t])]
    /\ page' = IF cur[t].op = "GetWithRange" /\ page = NoPage
               THEN [call |-> cur[t], items |-> ReadResult(BM, cur[t]).items]
               ELSE page
    /\ Goto(t, "runlock")
    /\ keys' = IF cur[t].op = "GetWithRange" /\ keys # <<>> THEN Tail(keys) ELSE keys
    /\ UNCHANGED <<keyToEntry, valueToKey, mu, old, acq, abs>>

\* The body of a read method: the result is computed; no field of the map
\* is assigned.
ReadBody(t) ==
    /\ pc[t] = "read"
    /\ res' = [res EXCEPT ![t] = ReadResult(BM, cur[t])]
    /\ exp' = [exp EXCEPT ![t] = ReadResult(abs, cur[t])]
    /\ page' = IF cur[t].op = "GetWithRange" /\ page = NoPage
               THEN [call |-> cur[t], items |-> ReadResult(BM, cur[t]).items]
               ELSE page
    /\ Goto(t, "runlock")
    /\ MapUnchanged
    /\ UNCHANGED <<mu, old, acq, abs>>

\* defer bm.mu.RUnlock(), and the return.
ReleaseRLock(t) ==
    /\ pc[t] = "runlock"
    /\ mu' = RUnlock(mu, t)
    /\ Done(t)
    /\ MapUnchanged
    /\ UNCHANGED <<abs, page>>

\* The steps of a goroutine inside a call.
Run(t) ==
    \/ AcquireLock(t)
    \/ SetRelease(t)
    \/ SetEvictEntry(t)
    \/ SetEvictKey(t)
    \/ SetStoreEntry(t)
    \/ SetStoreKey(t)
    \/ DeleteEntry(t)
    \/ DeleteValue(t)
    \/ DeleteKey(t)
    \/ ReleaseLock(t)
    \/ AcquireRLock(t)
    \/ ReadBody(t)
    \/ ReleaseRLock(t)

ConcNext ==
    \/ \E t \in Threads : Invoke(t)
    \/ \E t \in Threads : AcquireLock(t)
    \/ \E t \in Threads : SetRelease(t)
    \/ \E t \in Threads : SetEvictEntry(t)
    \/ \E t \in Threads : SetEvictKey(t)
    \/ \E t \in Threads : SetStoreEntry(t)
    \/ \E t \in Threads : SetStoreKey(t)
    \/ \E t \in Threads : DeleteEntry(t)
    \/ \E t \in Threads : DeleteValue(t)
    \/ \E t \in Threads : DeleteKey(t)
    \/ \E t \in Threads : ReleaseLock(t)
    \/ \E t \in Threads : AcquireRLock(t)
    \/ \E t \in Threads : ReadBody(t)
    \/ \E t \in Threads : ReleaseRLock(t)

ConcSpec == Init /\ [][ConcNext]_vars

\* The scheduler runs every goroutine that can take a step.
FairSpec == Init /\ [][ConcNext]_vars /\ \A t \in Threads : WF_vars(Run(t))

\* ---------------------------------------------------------------- claims
IsSet(c) == c.op \in {"Set", "SetWithExtra"}

IsWrite(c) == c.op \in {"Set", "SetWithExtra", "Delete"}

Elements(s) == {s[i] : i \in 1..Len(s)}

\* Position of key k in the list ks (0 when absent).
PositionOf(ks, k) ==
    IF k \in Elements(ks) THEN CHOOSE i \in 1..Len(ks) : ks[i] = k ELSE 0

\* v is held by no key other than k in bm.
FreeFor(bm, v, k) == v \in DOMAIN bm.valueToKey => bm.valueToKey[v] = k

\* C1: index symmetry.  After every completed call, from the empty map on,
\* the forward and the reverse index are inverses of each other: key k holds
\* value v in the forward index exactly when v names k in the reverse index.
\* So no two live keys share a value and no reverse entry is stale.
C1_IndexSymmetry ==
    /\ \A k \in Strings, v \in Strings :
          (k \in DOMAIN keyToEntry /\ keyToEntry[k].Value = v)
              <=> (v \in DOMAIN valueToKey /\ valueToKey[v] = k)
    /\ \A k1 \in DOMAIN keyToEntry, k2 \in DOMAIN keyToEntry :
          keyToEntry[k1].Value = keyToEntry[k2].Value => k1 = k2
    /\ DOMAIN keyToEntry \subseteq Strings
    /\ DOMAIN valueToKey \subseteq Strings

\* A write that met a key collision and a value collision at once, leaving
\* at least two live entries.
C1_Witness ==
    /\ IsSet(last)
    /\ last.key \in DOMAIN pre.keyToEntry
    /\ last.value \in DOMAIN pre.valueToKey
    /\ pre.valueToKey[last.value] # last.key
    /\ Cardinality(DOMAIN keyToEntry) >= 2

\* C2: ordered-key consistency.  After every completed call the key list is
\* strictly ascending, its elements are exactly the keys of the forward
\* index, and Len() equals the length of the key list.
C2_OrderedKeys ==
    /\ \A i \in 1..Len(keys), j \in 1..Len(keys) : i < j => keys[i] < keys[j]
    /\ Elements(keys) = DOMAIN keyToEntry
    /\ BiMapLen(BM) = Len(keys)

\* A new key entered the list before an older one while the holder of its
\* value was evicted from the list.
C2_Witness ==
    /\ IsSet(last)
    /\ last.key \notin DOMAIN pre.keyToEntry
    /\ last.value \in DOMAIN pre.valueToKey
    /\ Len(keys) >= 2
    /\ \E i \in 1..Len(keys) : last.key < keys[i]

\* C3: postcondition of a set.  Right after SetWithExtra(k, v, e) (Set is
\* the case e = nil), GetExtra(k) is (v, e, true), Get(k) is (v, true) and
\* GetByValue(v) is (k, true), whatever collisions the call met.
C3_SetRoundTrip ==
    IsSet(last) =>
        /\ GetExtra(BM, last.key) = <<last.value, last.extra, TRUE>>
        /\ Get(BM, last.key) = <<last.value, TRUE>>
        /\ GetByValue(BM, last.value) = <<last.key, TRUE>>

\* SetWithExtra with a payload on a key that held another value without
\* payload, the new value being held by another key.
C3_Witness ==
    /\ last.op = "SetWithExtra"
    /\ last.extra # Nil
    /\ last.key \in DOMAIN pre.keyToEntry
    /\ pre.keyToEntry[last.key].Value # last.value
    /\ pre.keyToEntry[last.key].Extra = Nil
    /\ last.value \in DOMAIN pre.valueToKey

\* C4: a value collision evicts the prior key.  When Set(k1, v) is followed
\* at once by Set(k2, v) with k1 # k2, then Get(k1) is not found, Get(k2) is
\* v, GetByValue(v) is k2, k1 is not in the key list, and if k1, k2 and v
\* were all absent before the first call, Len is one more than it was then.
C4_ValueCollisionEvicts ==
    [][(IsSet(last) /\ IsSet(last') /\ last'.value = last.value
            /\ last'.key # last.key)
        => /\ Get(BM', last.key)[2] = FALSE
           /\ Get(BM', last'.key) = <<last.value, TRUE>>
           /\ GetByValue(BM', last.value) = <<last'.key, TRUE>>
           /\ last.key \notin Elements(keys')
           /\ (/\ last.key \notin DOMAIN pre.keyToEntry
               /\ last'.key \notin DOMAIN pre.keyToEntry
               /\ last.value \notin DOMAIN pre.valueToKey)
                  => BiMapLen(BM') = BiMapLen(pre) + 1]_vars

\* A set of a new key took the value over from the key that held it: the
\* holder is gone and the size is what it was.
C4_Witness ==
    /\ IsSet(last)
    /\ last.key \notin DOMAIN pre.keyToEntry
    /\ last.value \in DOMAIN pre.valueToKey
    /\ pre.valueToKey[last.value] \notin DOMAIN keyToEntry
    /\ BiMapLen(BM) = BiMapLen(pre)
    /\ BiMapLen(BM) >= 2

\* C5: a key update keeps the key's identity.  When Set(k, v1) is followed
\* at once by Set(k, v2), v1 # v2, and no other key holds v2, then Len is the
\* same after the second call as between the two, k keeps its position in
\* the key list, Get(k) is v2, GetByValue(v1) is not found and GetByValue(v2)
\* is k.  (Whether another key held v1 before the first call does not matter.)
C5_KeyUpdateKeepsIdentity ==
    [][(IsSet(last) /\ IsSet(last') /\ last'.key = last.key
            /\ last'.value # last.value /\ FreeFor(BM, last'.value, last.key))
        => /\ BiMapLen(BM') = BiMapLen(BM)
           /\ PositionOf(keys', last.key) = PositionOf(keys, last.key)
           /\ PositionOf(keys', last.key) > 0
           /\ Get(BM', last.key) = <<last'.value, TRUE>>
           /\ GetByValue(BM', last.value)[2] = FALSE
           /\ GetByValue(BM', last'.value) = <<last.key, TRUE>>]_vars

\* A set moved a key in the middle of the list from its value to a free one.
C5_Witness ==
    /\ IsSet(last)
    /\ last.key \in DOMAIN pre.keyToEntry
    /\ pre.keyToEntry[last.key].Value # last.value
    /\ last.value \notin DOMAIN pre.valueToKey
    /\ BiMapLen(BM) = BiMapLen(pre)
    /\ PositionOf(keys, last.key) = 2
    /\ pre.keyToEntry[last.key].Value \notin DOMAIN valueToKey

\* The live keys of bm in ascending order.
RECURSIVE Ascending(_)
Ascending(S) ==
    IF S = {} THEN <<>>
    ELSE LET m == CHOOSE x \in S : \A y \in S : x <= y
         IN  <<m>> \o Ascending(S \ {m})

\* The entries at positions [from, to) (counted from 0) of the live keys of
\* bm in ascending order; from and to are unbounded integers.
Page(bm, from, to) ==
    LET sorted == Ascending(DOMAIN bm.keyToEntry)
    IN  [j \in 1..(to - from) |->
            ItemWithExtra(sorted[from + j], bm.keyToEntry[sorted[from + j]].Value,
                          bm.keyToEntry[sorted[from + j]].Extra)]

\* C6: ranged enumeration.  With n live keys, for every start >= 0 and every
\* limit, GetWithRange(start, limit) returns without failing exactly the
\* entries at positions [start, min(start+limit, n)) of the ascending keys,
\* in order, as (key, value, extra); nothing when start >= n or limit <= 0;
\* never more than limit entries.
C6_RangedEnumeration ==
    (last.op = "GetWithRange" /\ last.start >= 0) =>
        LET n == BiMapLen(pre)
        IN  /\ ret.status = "ok"
            /\ IF last.start >= n \/ last.limit <= 0
               THEN ret.items = <<>>
               ELSE /\ ret.items = Page(pre, last.start, Min(last.start + last.limit, n))
                    /\ Len(ret.items) <= last.limit

\* C7: clipping for every machine integer.  For 0 <= start < Len() and every
\* limit > 0 that reaches the end of the keys (start + limit >= Len(), the
\* sum taken in the unbounded integers, so also when it exceeds the largest
\* int), GetWithRange returns the tail of the entries from position start on,
\* without failing.
C7_ClippingEveryLimit ==
    (/\ last.op = "GetWithRange"
     /\ 0 <= last.start /\ last.start < BiMapLen(pre)
     /\ last.limit > 0 /\ last.start + last.limit >= BiMapLen(pre))
        => /\ ret.status = "ok"
           /\ ret.items = Page(pre, last.start, BiMapLen(pre))

\* C8: a negative start is rejected.  For every start < 0 and every limit,
\* GetWithRange reports an invalid range, which is not the empty result, and
\* leaves the map as it was.
C8_NegativeStartRejected ==
    (last.op = "GetWithRange" /\ last.start < 0)
        => /\ ret.status = "invalid range"
           /\ BM = pre

\* C9: delete of a live key.  After Delete(k) where k held v: Get(k) and
\* GetExtra(k) are not found, GetByValue(v) is not found, k is not in the key
\* list, Len is one less, and every other entry, every other reverse entry
\* and the order of the other keys are as before.
C9_DeleteLiveKey ==
    (last.op = "Delete" /\ last.key \in DOMAIN pre.keyToEntry) =>
        LET k == last.key
            v == pre.keyToEntry[k].Value
        IN  /\ Get(BM, k)[2] = FALSE
            /\ GetExtra(BM, k) = <<ZeroString, Nil, FALSE>>
            /\ GetByValue(BM, v)[2] = FALSE
            /\ k \notin Elements(keys)
            /\ BiMapLen(BM) = BiMapLen(pre) - 1
            /\ \A k2 \in (DOMAIN pre.keyToEntry) \ {k} :
                  /\ GetExtra(BM, k2) = GetExtra(pre, k2)
                  /\ GetByValue(BM, pre.keyToEntry[k2].Value) = <<k2, TRUE>>
            /\ DOMAIN keyToEntry = (DOMAIN pre.keyToEntry) \ {k}
            /\ DOMAIN valueToKey = (DOMAIN pre.valueToKey) \ {v}
            /\ keys = SelectSeq(pre.keys, LAMBDA x : x # k)

\* The middle one of three live keys was deleted.
C9_Witness ==
    /\ last.op = "Delete"
    /\ Len(pre.keys) = 3
    /\ pre.keys[2] = last.key
    /\ Len(keys) = 2

\* C10: delete of an absent key is a no-op.  Delete(k) for a key without a
\* live entry leaves the forward index, the reverse index and the key list as
\* they were and reports nothing; and a second Delete(k) right after a
\* Delete(k) changes nothing.
C10_DeleteAbsentNoOp ==
    /\ []((last.op = "Delete" /\ last.key \notin DOMAIN pre.keyToEntry)
            => (BM = pre /\ ret = Void))
    /\ [][(last.op = "Delete" /\ last'.op = "Delete" /\ last'.key = last.key)
            => (BM' = BM /\ ret' = Void)]_vars

\* Delete of a missing key while another key holds the empty string as its
\* value and the map has entries.
C10_Witness ==
    /\ last.op = "Delete"
    /\ last.key \notin DOMAIN pre.keyToEntry
    /\ ZeroString \in DOMAIN pre.valueToKey
    /\ BiMapLen(BM) >= 2

\* The keys of bm that a set of key to value neither names nor evicts.
Bystanders(bm, key, value) ==
    {k \in DOMAIN bm.keyToEntry : k # key /\ bm.keyToEntry[k].Value # value}

\* The keys whose entry (or presence) differs between bm1 and bm2.
ChangedKeys(bm1, bm2) ==
    {k \in Strings : GetExtra(bm1, k) # GetExtra(bm2, k)}

\* C16: frame of a write.  SetWithExtra(k, v, e) changes at most two entries,
\* that of k and that of the key that held v; every entry whose key is not k
\* and whose value is not v keeps key, value and payload, is found by Get and
\* by GetByValue, and keeps its order relative to the other such keys.
C16_WriteFrame ==
    IsSet(last) =>
        LET others == Bystanders(pre, last.key, last.value)
        IN  /\ \A k \in others :
                  /\ GetExtra(BM, k) = GetExtra(pre, k)
                  /\ Get(BM, k) = <<pre.keyToEntry[k].Value, TRUE>>
                  /\ GetByValue(BM, pre.keyToEntry[k].Value) = <<k, TRUE>>
            /\ SelectSeq(keys, LAMBDA x : x \in others)
                  = SelectSeq(pre.keys, LAMBDA x : x \in others)
            /\ ChangedKeys(pre, BM) \subseteq
                  {last.key} \cup {pre.valueToKey[v] : v \in {last.value} \cap DOMAIN pre.valueToKey}
            /\ Cardinality(ChangedKeys(pre, BM)) <= 2

\* A set changed two entries (its own key's and the evicted holder's) next
\* to a bystander whose value is named like the key that was set.
C16_Witness ==
    /\ IsSet(last)
    /\ Cardinality(ChangedKeys(pre, BM)) = 2
    /\ last.key \in DOMAIN pre.keyToEntry
    /\ \E k \in Bystanders(pre, last.key, last.value) :
          pre.keyToEntry[k].Value = last.key

\* C17: size change of a write.  Set(k, v) changes Len by +1 when k is new and
\* v is unheld; by 0 when k is new and v is held by another key, when k exists
\* and v is unheld, or when k already maps to v; by -1 when k exists and v is
\* held by a different key.  Never by more than 1.
C17_SizeChange ==
    IsSet(last) =>
        LET kNew == last.key \notin DOMAIN pre.keyToEntry
            vFree == last.value \notin DOMAIN pre.valueToKey
            vOwn == ~vFree /\ pre.valueToKey[last.value] = last.key
            delta == BiMapLen(BM) - BiMapLen(pre)
        IN  /\ (kNew /\ vFree) => delta = 1
            /\ (kNew /\ ~vFree) => delta = 0
            /\ (~kNew /\ vFree) => delta = 0
            /\ (~kNew /\ vOwn) => delta = 0
            /\ (~kNew /\ ~vFree /\ ~vOwn) => delta = -1
            /\ delta \in {-1, 0, 1}

\* A set of an existing key to a value held by another key: the map shrank.
C17_Witness ==
    /\ IsSet(last)
    /\ last.key \in DOMAIN pre.keyToEntry
    /\ last.value \in DOMAIN pre.valueToKey
    /\ pre.valueToKey[last.value] # last.key
    /\ BiMapLen(BM) = BiMapLen(pre) - 1
    /\ BiMapLen(pre) = 3

\* C18: set is idempotent.  A second SetWithExtra(k, v, e) right after the
\* first leaves the forward index, the reverse index and the key list as the
\* first call left them; a key set again to its value keeps the reverse entry
\* of that value and stays exactly once in the key list.
C18_SetIdempotent ==
    [][(IsSet(last) /\ last' = last)
        => /\ BM' = BM
           /\ GetByValue(BM', last.value) = <<last.key, TRUE>>
           /\ Len(SelectSeq(keys', LAMBDA x : x = last.key)) = 1]_vars

\* The same set completed a second time: it found the map as it left it, with
\* another entry beside the one it wrote.
C18_Witness ==
    /\ IsSet(last)
    /\ pre = BM
    /\ pre.keyToEntry[last.key] = entry(last.value, last.extra)
    /\ BiMapLen(BM) >= 2

\* C19: a write replaces the payload wholesale.  After SetWithExtra(k, v, e)
\* the payload of k is e, whatever payload k or the previous holder of v
\* carried; after Set(k, v) the payload of k is nil.
C19_PayloadReplaced ==
    /\ last.op = "SetWithExtra" => GetExtra(BM, last.key)[2] = last.extra
    /\ last.op = "Set" => GetExtra(BM, last.key) = <<last.value, Nil, TRUE>>

\* Set on a key that carried a payload, taking the value over from a key
\* that carried one too.
C19_Witness ==
    /\ last.op = "Set"
    /\ last.key \in DOMAIN pre.keyToEntry
    /\ pre.keyToEntry[last.key].Extra # Nil
    /\ last.value \in DOMAIN pre.valueToKey
    /\ pre.valueToKey[last.value] # last.key
    /\ pre.keyToEntry[pre.valueToKey[last.value]].Extra # Nil

\* -------------------------------------------------- claims on concurrency
\* The forward and the reverse index of bm are inverses of each other.
Symmetric(bm) ==
    \A k \in Strings, v \in Strings :
        (k \in DOMAIN bm.keyToEntry /\ bm.keyToEntry[k].Value = v)
            <=> (v \in DOMAIN bm.valueToKey /\ bm.valueToKey[v] = k)

\* The key list of bm is strictly ascending and lists the forward index.
Ordered(bm) ==
    /\ \A i \in 1..Len(bm.keys), j \in 1..Len(bm.keys) :
          i < j => bm.keys[i] < bm.keys[j]
    /\ Elements(bm.keys) = DOMAIN bm.keyToEntry

\* Goroutine t is between Lock and Unlock of a write.
InWrite(t) == pc[t] \in {"s1", "s2", "s3", "s4", "s5", "d1", "d2", "d3", "unlock"}

\* Goroutine t is between RLock and RUnlock of a read.
InRead(t) == pc[t] \in {"read", "runlock"}

\* Goroutine t waits for the mutex.
Blocked(t) ==
    \/ pc[t] = "lock" /\ ~CanLock(mu)
    \/ pc[t] = "rlock" /\ ~CanRLock(mu)

\* C11: readers never observe a partially updated map.  Whenever a read
\* holds the shared lock, index symmetry and ordered-key consistency hold,
\* with the writes run one index update at a time.
C11_ReadersSeeWholeMap ==
    \A t \in Threads :
        (t \in mu.readers \/ InRead(t)) => (Symmetric(BM) /\ Ordered(BM))

\* A read holds the shared lock on a map of two entries while another
\* goroutine waits to write.
C11_Witness ==
    \E t \in Threads, u \in Threads :
        /\ t \in mu.readers /\ pc[t] = "read"
        /\ pc[u] = "lock"
        /\ BiMapLen(BM) = 2

\* C12: lock discipline.  At most one goroutine is inside a write; while one
\* is, none is inside a read; a goroutine inside a write holds the lock as the
\* writer, one inside a read holds it as a reader with no writer; several
\* readers may be inside together.
C12_LockDiscipline ==
    /\ Cardinality({t \in Threads : InWrite(t)}) <= 1
    /\ (\E t \in Threads : InWrite(t)) => ~(\E u \in Threads : InRead(u))
    /\ \A t \in Threads :
          /\ InWrite(t) => (mu.writer = t /\ mu.readers = {})
          /\ InRead(t) => (t \in mu.readers /\ mu.writer = NoThread)
          /\ (mu.writer = t) => InWrite(t)
          /\ (t \in mu.readers) => InRead(t)

\* Two reads are inside together while the map has an entry.
C12_Witness ==
    /\ Cardinality({t \in Threads : InRead(t)}) >= 2
    /\ BiMapLen(BM) >= 1

\* C13: linearizability.  Ordering the calls by the moment they take the
\* lock (for a read, the moment it reads), which lies between call and
\* return, every read returns what it returns on the atomic map after the
\* calls ordered before it, and whenever no write is under way the map equals
\* the atomic map.
C13_Linearizable ==
    /\ \A t \in Threads : pc[t] = "runlock" => res[t] = exp[t]
    /\ mu.writer = NoThread => BM = abs

\* A read found an entry while another goroutine waits to write, after a
\* write that evicted a key.
C13_Witness ==
    \E t \in Threads, u \in Threads :
        /\ pc[t] = "runlock" /\ res[t].found
        /\ pc[u] = "lock"
        /\ ncalls = MaxCalls
        /\ keys = <<1>>

\* C14: reads are pure and pagination is stable.  No step of a read changes
\* the forward index, the reverse index or the key list, and a GetWithRange
\* returns what the first GetWithRange with the same arguments returned since
\* the last write.
C14_ReadsPure ==
    /\ [](\A t \in Threads :
            (pc[t] = "runlock" /\ cur[t].op = "GetWithRange" /\ page.call = cur[t])
                => res[t].items = page.items)
    /\ [][(\E t \in Threads : pc[t] \in {"rlock", "read", "runlock"} /\ pc'[t] # pc[t])
            => BM' = BM]_vars

\* Two goroutines have read the same non-empty page.
C14_Witness ==
    \E t \in Threads, u \in Threads :
        /\ t # u
        /\ pc[t] = "runlock" /\ pc[u] = "runlock"
        /\ cur[t] = page.call /\ cur[u] = page.call
        /\ Len(page.items) = 2

\* C15: deadlock freedom and completion.  A call acquires the lock once and
\* holds nothing when it has returned; while calls are pending, not all of
\* them wait for the lock; and every call returns.
C15_NoDeadlock ==
    /\ [](\A t \in Threads :
            /\ acq[t] <= 1
            /\ pc[t] \notin {"idle", "lock", "rlock"} => acq[t] = 1
            /\ pc[t] \in {"idle", "lock", "rlock"} => (mu.writer # t /\ t \notin mu.readers))
    /\ []((\E t \in Threads : pc[t] # "idle")
            => (\E t \in Threads : pc[t] # "idle" /\ ~Blocked(t)))
    /\ \A t \in Threads : (pc[t] # "idle") ~> (pc[t] = "idle")

\* A read waits while a write is inside and has met a value collision.
C15_Witness ==
    \E t \in Threads, u \in Threads :
        /\ pc[t] = "rlock" /\ Blocked(t)
        /\ pc[u] = "s3" /\ mu.writer = u

====
